---- MODULE Spec2Model ----
(***************************************************************************)
(* Model of homebridge-calendar's CalendarPoller                           *)
(* (src/src/CalendarPoller.js): the start/stop lifecycle, the https fetch, *)
(* the expand-filter-emit step, the re-arm timer and the all-day           *)
(* classifier.                                                             *)
(*                                                                         *)
(* Node runs every handler to completion on one thread, so each handler is *)
(* one atomic action.  The handlers are written as operators on a record s *)
(* holding the poller's fields (isStarted, refreshTimer), the runtime's    *)
(* pending timeouts (timers), the number of https requests in flight       *)
(* (inFlight) and the trace of effects of the running handler (eff).       *)
(*                                                                         *)
(* Collaborators outside the repository are inputs: a request ends either  *)
(* with an 'error' event or with a response (status, body); the expansion  *)
(* of a body is the value the document record carries (a window, or no     *)
(* result).  An 'error' listener is taken to be registered.                *)
(*                                                                         *)
(* EventEmitter.emit runs the listeners synchronously, inside the handler  *)
(* that emits.  Every effect is recorded with the value _isStarted has at  *)
(* that moment, which is what a listener reads.  A listener of 'started'   *)
(* or 'stopped' may call start() or stop() itself (StartNotifying,         *)
(* StopNotifying); listeners of 'data' and 'error' make no such call.      *)
(* lastLifecycle is the last of 'started' / 'stopped' emitted so far.      *)
(*                                                                         *)
(* SpecClassifier runs looksAllDayIcalEvent on one value (probe) drawn     *)
(* by IsProbeInput.                                                        *)
(***************************************************************************)
EXTENDS Integers, Sequences, FiniteSets, TLC

VARIABLES _isStarted, _refreshTimer, timers, inFlight, effects, lastCall,
          lastLifecycle, probe

vars == <<_isStarted, _refreshTimer, timers, inFlight, effects, lastCall,
          lastLifecycle, probe>>

(***************************************************************************)
(* Bounds                                                                  *)
(***************************************************************************)
\* requests that may be in flight at once
MaxInFlight == 2
\* timeout objects the runtime can hold at once
MaxTimers == 2
\* most elements a window holds, events and occurrences together
MaxLen == 2
\* nested calls the stack holds before a RangeError is thrown
MaxStack == 2
\* days the instants given to the classifier range over
MaxDays == 2

(***************************************************************************)
(* Values                                                                  *)
(***************************************************************************)
\* this._refreshTimer = undefined
Undefined == 0

TimerIds == 1..MaxTimers

oneDayMs == 24 * 60 * 60 * 1000

maxDriftMs == 2 * 60 * 60 * 1000

hourMs == 60 * 60 * 1000

\* A JS Date: epoch milliseconds and the local wall-clock fields the
\* getters return for it.
JSDate(time, hours, minutes, seconds) ==
  [time |-> time, hours |-> hours, minutes |-> minutes, seconds |-> seconds]

NoDate == JSDate(0, 0, 0, 0)

\* What startDate / endDate can hold:
\*   "absent"  undefined / null
\*   "ical"    an ICAL.Time: has toJSDate() and the isDate flag
\*   "date"    a plain JS Date: no toJSDate, no isDate
\*   "other"   any other truthy value (a string, say): not a Date
Absent == [kind |-> "absent", isDate |-> FALSE, js |-> NoDate]

IcalTime(isDate, js) == [kind |-> "ical", isDate |-> isDate, js |-> js]

PlainDate(js) == [kind |-> "date", isDate |-> FALSE, js |-> js]

Other == [kind |-> "other", isDate |-> FALSE, js |-> NoDate]

NoItem == [present |-> FALSE, startDate |-> Absent, endDate |-> Absent]

Item(sd, ed) == [present |-> TRUE, startDate |-> sd, endDate |-> ed]

\* A VEVENT carries startDate / endDate itself, an occurrence carries them
\* on its item.
Event(sd, ed) == [absent |-> FALSE, startDate |-> sd, endDate |-> ed, item |-> NoItem]

Occurrence(sd, ed) ==
  [absent |-> FALSE, startDate |-> sd, endDate |-> ed, item |-> Item(sd, ed)]

ItemOnly(sd, ed) ==
  [absent |-> FALSE, startDate |-> Absent, endDate |-> Absent, item |-> Item(sd, ed)]

Truthy(d) == d.kind # "absent"

(***************************************************************************)
(* looksAllDayIcalEvent                                                    *)
(***************************************************************************)
\* an instanceof check that lets every truthy value pass
IsAnyObject(d) == d.kind # "absent"

\* x.toJSDate ? x.toJSDate() : x   followed by   instanceof Date
IsDateObject(d) == d.kind \in {"ical", "date"}

\* Math.round(a / b) for b > 0: halves round towards +infinity
MathRound(a, b) == (2 * a + b) \div (2 * b)

Abs(x) == IF x < 0 THEN -x ELSE x

IsMidnight(js) == js.hours = 0 /\ js.minutes = 0 /\ js.seconds = 0

\* the heuristic without DST tolerance: whole multiples of 24 hours only
HeuristicWholeDays(start, end) ==
  LET durationMs == end.time - start.time
  IN  /\ IsMidnight(start) /\ IsMidnight(end)
      /\ durationMs >= oneDayMs
      /\ durationMs % oneDayMs = 0

HeuristicAllDay(start, end) ==
  LET durationMs == end.time - start.time
      days == MathRound(durationMs, oneDayMs)
      driftMs == Abs(durationMs - days * oneDayMs)
  IN  IF ~IsMidnight(start) \/ ~IsMidnight(end) THEN FALSE
      ELSE IF days < 1 THEN FALSE
      ELSE driftMs <= maxDriftMs

\* src = (e.startDate && e.endDate) ? e : e.item
SrcOf(e) ==
  IF Truthy(e.startDate) /\ Truthy(e.endDate)
  THEN [present |-> TRUE, startDate |-> e.startDate, endDate |-> e.endDate]
  ELSE e.item

\* the classifier without the VALUE=DATE signal
looksAllDayIgnoringFlag(e) ==
  IF e.absent THEN FALSE
  ELSE LET src == SrcOf(e) IN
    IF ~src.present \/ ~Truthy(src.startDate) \/ ~Truthy(src.endDate) THEN FALSE
    ELSE IF ~IsDateObject(src.startDate) \/ ~IsDateObject(src.endDate) THEN FALSE
    ELSE HeuristicAllDay(src.startDate.js, src.endDate.js)

looksAllDayIcalEvent(e) ==
  IF e.absent THEN FALSE
  ELSE LET src == SrcOf(e) IN
    IF ~src.present \/ ~Truthy(src.startDate) \/ ~Truthy(src.endDate) THEN FALSE
    ELSE IF src.startDate.isDate \/ src.endDate.isDate THEN TRUE
    ELSE IF ~IsDateObject(src.startDate) \/ ~IsDateObject(src.endDate) THEN FALSE
    ELSE HeuristicAllDay(src.startDate.js, src.endDate.js)

(***************************************************************************)
(* Inputs: dates, occurrences, documents, responses, failures              *)
(***************************************************************************)
Midnight(d) == JSDate(d * oneDayMs, 0, 0, 0)

At(d, h) == JSDate(d * oneDayMs + h * hourMs, h, 0, 0)

\* a 2-hour timed event
TimedEvent == Event(IcalTime(FALSE, At(1, 10)), IcalTime(FALSE, At(1, 12)))

\* a multi-day all-day event, DTSTART;VALUE=DATE
AllDayEvent == Event(IcalTime(TRUE, Midnight(2)), IcalTime(TRUE, Midnight(4)))

\* a timed occurrence of a recurring event
TimedOccurrence == Occurrence(IcalTime(FALSE, At(3, 9)), IcalTime(FALSE, At(3, 10)))

\* a midnight-to-midnight occurrence with date-time values
MidnightOccurrence == Occurrence(IcalTime(FALSE, Midnight(5)), IcalTime(FALSE, Midnight(6)))

\* a second timed event, its instants plain Date objects
LateEvent == Event(PlainDate(At(2, 18)), PlainDate(At(2, 19)))

SampleEvents == {TimedEvent, LateEvent, AllDayEvent}

SampleOccurrences == {TimedOccurrence, MidnightOccurrence}

SeqsUpTo(S, n) == UNION {[1..k -> S] : k \in 0..n}

Window(events, occurrences) == [events |-> events, occurrences |-> occurrences]

EmptyWindow == Window(<<>>, <<>>)

Windows ==
  UNION {{Window(ev, oc) : oc \in SeqsUpTo(SampleOccurrences, MaxLen - Len(ev))} :
         ev \in SeqsUpTo(SampleEvents, MaxLen)}

\* A fetched body, modelled by what icalExpander.between(now, next) yields
\* for it: a window, or no result.
Doc(hasCal, cal) == [hasCal |-> hasCal, cal |-> cal]

NoResultDoc == Doc(FALSE, EmptyWindow)

Docs == {NoResultDoc} \cup {Doc(TRUE, w) : w \in Windows}

\* resp.statusCode of a completed response
StatusCodes == {200, 404}

IsSuccessStatus(status) == status >= 200 /\ status < 300

\* the err of the request's 'error' event
Errors == {"ECONNREFUSED", "ENOTFOUND"}

(***************************************************************************)
(* Inputs of the classifier                                                *)
(***************************************************************************)
Probe(shape, sd, ed, e) ==
  [shape |-> shape, sd |-> sd, ed |-> ed, e |-> e, done |-> FALSE, allDay |-> FALSE]

\* no value is being classified
NoProbe == Probe("none", Absent, Absent, Event(Absent, Absent))

\* what the getters of an Invalid Date return
NaN == -1

InvalidDate == JSDate(0, NaN, NaN, NaN)

minuteMs == 60 * 1000

secondMs == 1000

\* The process's time zone: local time is the epoch time until the
\* transition instant and the epoch time plus a shift from then on.
TransitionMs == oneDayMs + 2 * hourMs

Shifts == {-3 * hourMs, -hourMs, 0, hourMs, 3 * hourMs}

LocalMs(t, shift) == IF t >= TransitionMs THEN t + shift ELSE t

\* the Date of epoch time t: getHours / getMinutes / getSeconds read the
\* local time
ToDate(t, shift) ==
  LET l == LocalMs(t, shift)
  IN  JSDate(t, (l \div hourMs) % 24, (l \div minuteMs) % 60, (l \div secondMs) % 60)

ProbeHours == {0, 1, 3, 12, 21, 23}

ProbeTimes ==
  {d * oneDayMs + h * hourMs : d \in 0..MaxDays, h \in ProbeHours}
    \cup {d * oneDayMs + x : d \in 0..MaxDays, x \in {30 * minuteMs, secondMs}}

\* the values startDate / endDate may hold in a process of the given shift
ProbeValues(shift) ==
  {Absent, Other, IcalTime(FALSE, InvalidDate)}
    \cup {IcalTime(f, ToDate(t, shift)) : f \in BOOLEAN, t \in ProbeTimes}
    \cup {PlainDate(ToDate(t, shift)) : t \in ProbeTimes}

\* e is null / undefined
AbsentValue == [absent |-> TRUE, startDate |-> Absent, endDate |-> Absent, item |-> NoItem]

\* a value with only a start of its own, and both instants on its item
Partial(sd, ed) ==
  [absent |-> FALSE, startDate |-> sd, endDate |-> Absent, item |-> Item(sd, ed)]

Shapes == {"event", "occurrence", "item", "partial"}

Shaped(shape, sd, ed) ==
  CASE shape = "event" -> Event(sd, ed)
    [] shape = "occurrence" -> Occurrence(sd, ed)
    [] shape = "item" -> ItemOnly(sd, ed)
    [] shape = "partial" -> Partial(sd, ed)

\* p is a value the classifier may be given: null, or a value of one of
\* the shapes whose instants come from one process
IsProbeInput(p) ==
  \/ p = Probe("absent", Absent, Absent, AbsentValue)
  \/ \E sh \in Shifts, shape \in Shapes :
       \E sd \in ProbeValues(sh), ed \in ProbeValues(sh) :
         p = Probe(shape, sd, ed, Shaped(shape, sd, ed))

(***************************************************************************)
(* Effects of a handler, in order                                          *)
(***************************************************************************)
Effect(kind, name, arg) == [kind |-> kind, name |-> name, arg |-> arg]

Log(name, arg) == Effect("log", name, arg)

Emit(name, arg) == Effect("emit", name, arg)

HttpsGet == Effect("https.get", "_url", 0)

SetTimeout(t) == Effect("setTimeout", "_interval", t)

ClearTimeout(t) == Effect("clearTimeout", "_refreshTimer", t)

Between(data) == Effect("between", "icalExpander", data)

\* the call e made by the running handler, with the lifecycle flag of that
\* moment
Do(s, e) ==
  [s EXCEPT !.eff = Append(@, [kind |-> e.kind, name |-> e.name, arg |-> e.arg,
                               isStarted |-> s.isStarted])]

\* RangeError: Maximum call stack size exceeded
Throw == Effect("throw", "RangeError", 0)

Threw(s) == s.eff # <<>> /\ s.eff[Len(s.eff)].kind = "throw"

IsEmit(e, name) == e.kind = "emit" /\ e.name = name

IsLog(e) == e.kind = "log"

Count(seq, P(_)) == Cardinality({i \in DOMAIN seq : P(seq[i])})

(***************************************************************************)
(* CalendarPoller                                                          *)
(***************************************************************************)
\* constructor: this._isStarted = false; _refreshTimer is not set
Constructed ==
  [isStarted |-> FALSE, refreshTimer |-> Undefined, timers |-> {},
   inFlight |-> 0, eff |-> <<>>]

\* the timeout object setTimeout returns
NewTimer(live) == CHOOSE t \in TimerIds : t \notin live /\ \A u \in TimerIds \ live : t <= u

_loadCalendar(s) ==
  [Do(Do(s, Log("Updating", 0)), HttpsGet) EXCEPT !.inFlight = @ + 1]

\* re-arm without the pending-timer check
scheduleIgnoringPending(s) ==
  IF s.isStarted = FALSE
  THEN s
  ELSE LET t == NewTimer(s.timers)
       IN  [Do(s, SetTimeout(t)) EXCEPT !.refreshTimer = t, !.timers = @ \cup {t}]

_scheduleNextIteration(s) ==
  IF s.refreshTimer # Undefined \/ s.isStarted = FALSE
  THEN s
  ELSE LET t == NewTimer(s.timers)
       IN  [Do(s, SetTimeout(t)) EXCEPT !.refreshTimer = t, !.timers = @ \cup {t}]

\* the setTimeout callback of timeout t
timerCallback(s, t) ==
  _loadCalendar([s EXCEPT !.timers = @ \ {t}, !.refreshTimer = Undefined])

\* start without the already-started check
startUnguarded(s) ==
  _loadCalendar([Do(s, Emit("started", 0)) EXCEPT !.isStarted = TRUE])

start(s) ==
  IF s.isStarted = FALSE
  THEN _loadCalendar([Do(s, Emit("started", 0)) EXCEPT !.isStarted = TRUE])
  ELSE s

\* stop that forgets the pending timeout
stopKeepingTimer(s) ==
  IF s.isStarted = TRUE
  THEN [Do(s, Emit("stopped", 0)) EXCEPT !.isStarted = FALSE]
  ELSE s

stop(s) ==
  IF s.isStarted = TRUE
  THEN [Do(Do(s, Emit("stopped", 0)), ClearTimeout(s.refreshTimer))
          EXCEPT !.isStarted = FALSE,
                 !.timers = @ \ {s.refreshTimer},
                 !.refreshTimer = Undefined]
  ELSE s

\* what a listener of a lifecycle event calls from inside the listener
Listeners == {"start", "stop"}

\* start() at stack depth `depth`, a 'started' listener calling `listener`
RECURSIVE startNotifying(_, _, _)
startNotifying(s, listener, depth) ==
  IF s.isStarted = FALSE
  THEN LET emitted == Do(s, Emit("started", 0))
           heard == IF listener = "stop" THEN stop(emitted)
                    ELSE IF depth >= MaxStack THEN Do(emitted, Throw)
                    ELSE startNotifying(emitted, listener, depth + 1)
       IN  IF Threw(heard) THEN heard
           ELSE _loadCalendar([heard EXCEPT !.isStarted = TRUE])
  ELSE s

\* stop() at stack depth `depth`, a 'stopped' listener calling `listener`
RECURSIVE stopNotifying(_, _, _)
stopNotifying(s, listener, depth) ==
  IF s.isStarted = TRUE
  THEN LET emitted == Do(s, Emit("stopped", 0))
           heard == IF listener = "start" THEN start(emitted)
                    ELSE IF depth >= MaxStack THEN Do(emitted, Throw)
                    ELSE stopNotifying(emitted, listener, depth + 1)
       IN  IF Threw(heard) THEN heard
           ELSE [Do(heard, ClearTimeout(heard.refreshTimer))
                   EXCEPT !.isStarted = FALSE,
                          !.timers = @ \ {heard.refreshTimer},
                          !.refreshTimer = Undefined]
  ELSE s

\* a filter that keeps the retained elements in reverse order
FilterOutReversed(seq) ==
  LET kept == SelectSeq(seq, LAMBDA e : ~looksAllDayIcalEvent(e))
  IN  [i \in 1..Len(kept) |-> kept[Len(kept) + 1 - i]]

\* Array.prototype.filter(e => !looksAllDayIcalEvent(e))
FilterOut(seq) == SelectSeq(seq, LAMBDA e : ~looksAllDayIcalEvent(e))

\* a filtering step that leaves cal.occurrences alone
filterEventsOnly(cal) == Window(FilterOut(cal.events), cal.occurrences)

\* a filtering step that also drops the first event
filterDroppingFirst(cal) ==
  Window(FilterOut(IF cal.events = <<>> THEN <<>> ELSE Tail(cal.events)),
         FilterOut(cal.occurrences))

filterWindow(cal) == Window(FilterOut(cal.events), FilterOut(cal.occurrences))

\* a removed count that forgets the occurrences subset
removedEventsOnly(cal) ==
  LET after == filterWindow(cal)
  IN  Len(cal.events) - Len(after.events)

removedCount(cal) ==
  LET after == filterWindow(cal)
  IN  (Len(cal.events) - Len(after.events))
        + (Len(cal.occurrences) - Len(after.occurrences))

\* if (cal) { ... } of _refreshCalendar
filterAndEmit(s, cal) ==
  LET removed == removedCount(cal)
      logged == IF removed > 0 THEN Do(s, Log("Filtered", removed)) ELSE s
  IN  Do(logged, Emit("data", filterWindow(cal)))

\* a completion handler that returns early when there is no result
refreshReturningEarly(s, data) ==
  LET expanded == Do(s, Between(data))
  IN  IF data.hasCal
      THEN _scheduleNextIteration(filterAndEmit(expanded, data.cal))
      ELSE expanded

_refreshCalendar(s, data) ==
  LET expanded == Do(s, Between(data))
      emitted == IF data.hasCal THEN filterAndEmit(expanded, data.cal) ELSE expanded
  IN  _scheduleNextIteration(emitted)

\* https.get callback with resp.on('data') / resp.on('end'): the status is
\* never read
onResponseEnd(s, status, data) ==
  _refreshCalendar([s EXCEPT !.inFlight = @ - 1], data)

\* an error handler that passes the failure on as an empty body
onErrorAsEmptyBody(s, err) ==
  LET t == [s EXCEPT !.inFlight = @ - 1]
  IN  IF err # "" THEN _refreshCalendar(Do(t, Log("Failed", err)), Doc(TRUE, EmptyWindow)) ELSE t

\* .on('error', (err) => ...)
onError(s, err) ==
  LET t == [s EXCEPT !.inFlight = @ - 1]
  IN  IF err # "" THEN Do(Do(t, Log("Failed", err)), Emit("error", err)) ELSE t

(***************************************************************************)
(* Actions: one per handler the runtime can run                            *)
(***************************************************************************)
Cur ==
  [isStarted |-> _isStarted, refreshTimer |-> _refreshTimer, timers |-> timers,
   inFlight |-> inFlight, eff |-> <<>>]

\* the 'started' / 'stopped' events among the effects eff, in order
LifecycleEvents(eff) ==
  LET emits == SelectSeq(eff, LAMBDA e : e.kind = "emit" /\ e.name \in {"started", "stopped"})
  IN  [i \in 1..Len(emits) |-> emits[i].name]

Becomes(s, call) ==
  /\ _isStarted' = s.isStarted
  /\ _refreshTimer' = s.refreshTimer
  /\ timers' = s.timers
  /\ inFlight' = s.inFlight
  /\ effects' = s.eff
  /\ lastCall' = call
  /\ lastLifecycle' = LET evs == LifecycleEvents(s.eff)
                      IN  IF evs = <<>> THEN lastLifecycle ELSE evs[Len(evs)]
  /\ probe' = probe

\* The handler that ran last: its name and inputs, the handler before it, and
\* the lifecycle flag it found.
Call(op) ==
  [op |-> op, prev |-> lastCall.op, status |-> 0, err |-> "",
   data |-> NoResultDoc, wasStarted |-> _isStarted, listener |-> "none"]

Init ==
  /\ _isStarted = Constructed.isStarted
  /\ _refreshTimer = Constructed.refreshTimer
  /\ timers = Constructed.timers
  /\ inFlight = Constructed.inFlight
  /\ effects = Constructed.eff
  /\ lastCall = [op |-> "new", prev |-> "new", status |-> 0, err |-> "",
                 data |-> NoResultDoc, wasStarted |-> FALSE, listener |-> "none"]
  /\ lastLifecycle = "none"
  /\ probe = NoProbe

Start ==
  /\ _isStarted \/ inFlight < MaxInFlight
  /\ Becomes(start(Cur), Call("start"))

Stop == Becomes(stop(Cur), Call("stop"))

StartNotifying ==
  \E listener \in Listeners :
    /\ _isStarted \/ inFlight < MaxInFlight
    /\ Becomes(startNotifying(Cur, listener, 1),
               [Call("start+listener") EXCEPT !.listener = listener])

StopNotifying ==
  \E listener \in Listeners :
    Becomes(stopNotifying(Cur, listener, 1),
            [Call("stop+listener") EXCEPT !.listener = listener])

TimerFires ==
  \E t \in timers :
    /\ inFlight < MaxInFlight
    /\ Becomes(timerCallback(Cur, t), Call("timer"))

FetchEnds ==
  \E status \in StatusCodes, data \in Docs :
    /\ inFlight > 0
    /\ Becomes(onResponseEnd(Cur, status, data),
               [Call("end") EXCEPT !.status = status, !.data = data])

FetchFails ==
  \E err \in Errors :
    /\ inFlight > 0
    /\ Becomes(onError(Cur, err), [Call("error") EXCEPT !.err = err])

Next ==
  \/ Start
  \/ Stop
  \/ StartNotifying
  \/ StopNotifying
  \/ TimerFires
  \/ FetchEnds
  \/ FetchFails

Spec == Init /\ [][Next]_vars

(***************************************************************************)
(* The classifier alone                                                    *)
(***************************************************************************)
InitClassifier ==
  /\ _isStarted = Constructed.isStarted
  /\ _refreshTimer = Constructed.refreshTimer
  /\ timers = Constructed.timers
  /\ inFlight = Constructed.inFlight
  /\ effects = Constructed.eff
  /\ lastCall = [op |-> "new", prev |-> "new", status |-> 0, err |-> "",
                 data |-> NoResultDoc, wasStarted |-> FALSE, listener |-> "none"]
  /\ lastLifecycle = "none"
  /\ IsProbeInput(probe)

Classify ==
  /\ ~probe.done
  /\ probe' = [probe EXCEPT !.done = TRUE, !.allDay = looksAllDayIcalEvent(probe.e)]
  /\ UNCHANGED <<_isStarted, _refreshTimer, timers, inFlight, effects, lastCall,
                 lastLifecycle>>

NextClassifier == Classify

SpecClassifier == InitClassifier /\ [][NextClassifier]_vars

(***************************************************************************)
(* Properties                                                              *)
(***************************************************************************)
Emitted(name) == Count(effects, LAMBDA e : IsEmit(e, name))

Did(kind) == Count(effects, LAMBDA e : e.kind = kind)

FetchCompleted == lastCall.op \in {"end", "error"}

\* C1: after a fetch ends in a transport error while the scheduler is
\* Started, exactly one retry timer is armed (so that the next fetch begins).
C1_RetryArmedAfterError ==
  (lastCall.op = "error" /\ _isStarted) => Cardinality(timers) = 1

\* C2: whatever the interleaving of start(), stop(), completions and timer
\* firings (stop();start() during a fetch included), at most one poll cycle,
\* a fetch in flight or a pending timer, is active.
C2_AtMostOneCycle == inFlight + Cardinality(timers) <= 1

\* C3: at most one fetch is in flight at any instant.
C3_AtMostOneFetch == inFlight <= 1

\* C4: a fetch that resolves while the scheduler is Stopped emits no data
\* event, no error event and no log message, and arms no timer.
C4_StoppedCompletionSilent ==
  (FetchCompleted /\ ~_isStarted) =>
    /\ Did("emit") = 0
    /\ Did("log") = 0
    /\ Did("setTimeout") = 0

\* C5: the scheduler is never Started with neither a fetch in flight nor a
\* timer pending.
C5_StartedHasCycle == _isStarted => (inFlight > 0 \/ timers # {})

\* C6: whenever the scheduler is Stopped no timer is live (and the handle is
\* cleared).
C6_StoppedNoTimer == ~_isStarted => (timers = {} /\ _refreshTimer = Undefined)

\* C6 witness: stop() has just cancelled a pending timer.
C6_Witness ==
  /\ ~_isStarted
  /\ lastCall.op = "stop"
  /\ \E i \in DOMAIN effects :
       effects[i].kind = "clearTimeout" /\ effects[i].arg # Undefined

\* C7: at most one timer is pending at any instant.
C7_AtMostOneTimer == Cardinality(timers) <= 1

\* C7 witness: a fetch completed while Started with a timer already pending,
\* and the re-arm step created none.
C7_Witness ==
  /\ lastCall.op = "end"
  /\ _isStarted
  /\ Cardinality(timers) = 1
  /\ Did("setTimeout") = 0

\* C8: start() while Stopped emits exactly one started event and begins
\* exactly one fetch; start() while Started changes nothing and emits nothing.
C8_StartOnce ==
  [][lastCall'.op = "start" =>
       IF _isStarted
       THEN /\ UNCHANGED <<_isStarted, _refreshTimer, timers, inFlight>>
            /\ effects' = <<>>
       ELSE /\ _isStarted'
            /\ Count(effects', LAMBDA e : IsEmit(e, "started")) = 1
            /\ Count(effects', LAMBDA e : e.kind = "https.get") = 1
            /\ inFlight' = inFlight + 1]_vars

\* C8 witness: the second of two start() calls in succession has run, one
\* fetch is in flight.
C8_Witness ==
  /\ lastCall.op = "start"
  /\ lastCall.prev = "start"
  /\ lastCall.wasStarted
  /\ inFlight = 1
  /\ effects = <<>>

\* C9: a fetch that ends in a transport error emits exactly one error event,
\* carrying the failure cause, and no data event.
C9_ErrorEventOnly ==
  lastCall.op = "error" =>
    /\ Emitted("error") = 1
    /\ \A i \in DOMAIN effects :
         IsEmit(effects[i], "error") => effects[i].arg = lastCall.err
    /\ Emitted("data") = 0

\* C9 witness: a fetch has just failed and its cause was emitted.
C9_Witness ==
  /\ lastCall.op = "error"
  /\ \E i \in DOMAIN effects :
       IsEmit(effects[i], "error") /\ effects[i].arg = lastCall.err

\* C10: a response with a non-2xx status is reported by an error event,
\* yields no data event and its body is not handed to the expansion step.
C10_NonSuccessIsError ==
  (lastCall.op = "end" /\ ~IsSuccessStatus(lastCall.status)) =>
    /\ Emitted("error") >= 1
    /\ Emitted("data") = 0
    /\ Did("between") = 0

\* the windows carried by the data events of the last handler
DataWindows ==
  {effects[i].arg : i \in {j \in DOMAIN effects : IsEmit(effects[j], "data")}}

\* the 'Filtered N all-day event(s)' messages of the last handler
FilteredLogs ==
  {i \in DOMAIN effects : IsLog(effects[i]) /\ effects[i].name = "Filtered"}

AllDayIndices(seq) == {i \in DOMAIN seq : looksAllDayIcalEvent(seq[i])}

AllDayTotal(cal) ==
  Cardinality(AllDayIndices(cal.events)) + Cardinality(AllDayIndices(cal.occurrences))

\* out is exactly the non-all-day elements of in, in their order in in
IsRetained(in, out) ==
  LET keep == DOMAIN in \ AllDayIndices(in)
  IN  /\ Len(out) = Cardinality(keep)
      /\ \E f \in [DOMAIN out -> keep] :
           /\ \A i, j \in DOMAIN out : i < j => f[i] < f[j]
           /\ \A i \in DOMAIN out : out[i] = in[f[i]]

Expanded == lastCall.op = "end" /\ lastCall.data.hasCal

\* C11: when the expansion yields no result for a fetched document, no data
\* event is emitted in that cycle, and if the scheduler is Started a timer
\* for the next cycle is pending when the handler returns.
C11_NoResultStillArms ==
  (lastCall.op = "end" /\ ~lastCall.data.hasCal) =>
    /\ Emitted("data") = 0
    /\ _isStarted => (timers # {} /\ _refreshTimer \in timers)

\* C11 witness: a completion without result has just armed the timer.
C11_Witness ==
  /\ lastCall.op = "end"
  /\ ~lastCall.data.hasCal
  /\ _isStarted
  /\ Did("setTimeout") = 1
  /\ Emitted("data") = 0

\* C12: no window carried by a data event holds an element the classifier
\* calls all-day, in events or in occurrences.
C12_NoAllDayEmitted ==
  \A w \in DataWindows :
    /\ \A i \in DOMAIN w.events : ~looksAllDayIcalEvent(w.events[i])
    /\ \A i \in DOMAIN w.occurrences : ~looksAllDayIcalEvent(w.occurrences[i])

\* C12 witness: a window with all-day entries in both subsets was expanded
\* and a data event was emitted.
C12_Witness ==
  /\ Expanded
  /\ AllDayIndices(lastCall.data.cal.events) # {}
  /\ AllDayIndices(lastCall.data.cal.occurrences) # {}
  /\ Emitted("data") = 1

\* C16: the emitted window's events are exactly the non-all-day elements of
\* the expanded events in their original order, and likewise its
\* occurrences: nothing added, dropped, reordered or moved across.
C16_FilterKeepsOrder ==
  Expanded =>
    /\ Emitted("data") = 1
    /\ \A w \in DataWindows :
         /\ IsRetained(lastCall.data.cal.events, w.events)
         /\ IsRetained(lastCall.data.cal.occurrences, w.occurrences)

\* C16 witness: two timed events were retained in the order they came in.
C16_Witness ==
  /\ Expanded
  /\ lastCall.data.cal.events = <<LateEvent, TimedEvent>>
  /\ lastCall.data.cal.occurrences = <<>>
  /\ DataWindows = {Window(<<LateEvent, TimedEvent>>, <<>>)}

\* the feed of the end-to-end scenario: one timed and one all-day event
ScenarioDoc == Doc(TRUE, Window(<<TimedEvent, AllDayEvent>>, <<>>))

\* C17: a completion logs 'Filtered N' if and only if an element was
\* removed, N being the all-day elements of events plus those of
\* occurrences; the one-timed-one-all-day feed yields a window of one entry
\* and a log of 1.
C17_FilteredLogCount ==
  lastCall.op = "end" =>
    LET n == IF lastCall.data.hasCal THEN AllDayTotal(lastCall.data.cal) ELSE 0
    IN  /\ Cardinality(FilteredLogs) = (IF n > 0 THEN 1 ELSE 0)
        /\ \A i \in FilteredLogs : effects[i].arg = n
        /\ lastCall.data = ScenarioDoc =>
             /\ DataWindows = {Window(<<TimedEvent>>, <<>>)}
             /\ \E i \in FilteredLogs : effects[i].arg = 1

\* C17 witness: the scenario feed was fetched, with elements removed.
C17_Witness ==
  /\ lastCall.op = "end"
  /\ lastCall.data = ScenarioDoc
  /\ FilteredLogs # {}

\* C18: a window without all-day entries passes the filtering step
\* unchanged with nothing logged as removed, and filtering an emitted
\* window again returns it with a removed count of 0.
C18_FilterIdempotent ==
  Expanded =>
    /\ AllDayTotal(lastCall.data.cal) = 0 =>
         (DataWindows = {lastCall.data.cal} /\ FilteredLogs = {})
    /\ \A w \in DataWindows : filterWindow(w) = w /\ removedCount(w) = 0

\* C18 witness: a window with an event and an occurrence, neither all-day,
\* was emitted as it came.
C18_Witness ==
  /\ Expanded
  /\ lastCall.data.cal.events # <<>>
  /\ lastCall.data.cal.occurrences # <<>>
  /\ AllDayTotal(lastCall.data.cal) = 0
  /\ DataWindows = {lastCall.data.cal}

\* the classifier has run on a value that has a shape
Classified == probe.done /\ probe.shape \in Shapes

\* a Date, or an ICAL.Time that converts to one
IsInstant(d) == d.kind \in {"ical", "date"}

AtLocalMidnight(d) == d.js.hours = 0 /\ d.js.minutes = 0 /\ d.js.seconds = 0

ProbeDuration == probe.ed.js.time - probe.sd.js.time

\* both instants present, neither flagged date-only
Unflagged ==
  /\ Classified
  /\ IsInstant(probe.sd) /\ IsInstant(probe.ed)
  /\ ~probe.sd.isDate /\ ~probe.ed.isDate

\* C13: with both instants present and no date-only flag, the classifier
\* answers all-day exactly when both instants are at local midnight and the
\* duration is within 2 hours of N whole days for some N >= 1 (N is then
\* round(duration / 24h)); so N whole days midnight to midnight is all-day,
\* as is that span one hour shorter or longer, and 00:00 to 12:00 is not.
C13_HeuristicIff ==
  Unflagged =>
    /\ probe.allDay <=>
         /\ AtLocalMidnight(probe.sd)
         /\ AtLocalMidnight(probe.ed)
         /\ \E n \in 1..(MaxDays + 2) :
              /\ ProbeDuration - n * oneDayMs <= 2 * hourMs
              /\ n * oneDayMs - ProbeDuration <= 2 * hourMs
    /\ (AtLocalMidnight(probe.sd) /\ AtLocalMidnight(probe.ed)) =>
         \A n \in 1..(MaxDays + 2) :
           ProbeDuration \in {n * oneDayMs - hourMs, n * oneDayMs, n * oneDayMs + hourMs}
             => probe.allDay
    /\ (AtLocalMidnight(probe.sd) /\ probe.ed.js.hours = 12 /\ ProbeDuration = 12 * hourMs)
         => ~probe.allDay

\* C13 witness: a midnight-to-midnight day that a DST change shortened to
\* 23 hours was classified all-day.
C13_Witness ==
  /\ Unflagged
  /\ AtLocalMidnight(probe.sd)
  /\ AtLocalMidnight(probe.ed)
  /\ ProbeDuration = oneDayMs - hourMs
  /\ probe.allDay

\* C14: a value whose start or end is flagged date-only is all-day whatever
\* its instants are, whether the instants are on the value or on its item.
C14_DateOnlyFlagWins ==
  (/\ Classified
   /\ Truthy(probe.sd) /\ Truthy(probe.ed)
   /\ probe.sd.isDate \/ probe.ed.isDate)
    => probe.allDay

\* C14 witness: instants carried on the item only, the start flagged, the
\* end at noon half a day later: all-day.
C14_Witness ==
  /\ probe.done
  /\ probe.shape = "item"
  /\ probe.sd.isDate /\ ~probe.ed.isDate
  /\ probe.ed.js.hours = 12
  /\ ProbeDuration = 12 * hourMs
  /\ probe.allDay

\* a start or end that is present but is no valid date value
IsMalformed(d) == d.kind = "other" \/ (IsInstant(d) /\ d.js.hours = NaN)

Alternate(evs) ==
  \A i \in 1..(Len(evs) - 1) :
    evs[i + 1] = (IF evs[i] = "started" THEN "stopped" ELSE "started")

\* C19: start() while Started and stop() while Stopped change nothing and
\* emit nothing, and over any sequence of start() / stop() calls the
\* started and stopped events alternate, beginning with started.
C19_SilentNoOpsAlternate ==
  [][/\ (\/ lastCall'.op \in {"start", "start+listener"} /\ _isStarted
         \/ lastCall'.op \in {"stop", "stop+listener"} /\ ~_isStarted)
          => /\ UNCHANGED <<_isStarted, _refreshTimer, timers, inFlight, lastLifecycle>>
             /\ effects' = <<>>
     /\ Alternate(<<lastLifecycle>> \o LifecycleEvents(effects'))]_vars

\* C20: a started event is delivered with the scheduler already Started and
\* a stopped event with it already Stopped; so start() inside a started
\* listener does nothing, and stop() inside a started listener leaves the
\* scheduler Stopped.
C20_NoIntermediateState ==
  /\ \A i \in DOMAIN effects :
       /\ IsEmit(effects[i], "started") => effects[i].isStarted
       /\ IsEmit(effects[i], "stopped") => ~effects[i].isStarted
  /\ (lastCall.op = "start+listener" /\ ~lastCall.wasStarted) =>
       IF lastCall.listener = "start"
       THEN Emitted("started") = 1 /\ Did("https.get") = 1 /\ Did("throw") = 0
       ELSE ~_isStarted

====
